---- MODULE Spec2Model ----
(***************************************************************************)
(* Room / session lifecycle and metrics relay of metrics-host.js.          *)
(*                                                                         *)
(* The state is the registry `rooms` (code -> MetricsRoom object), the     *)
(* MetricsRoom objects (which outlive their registry entry while a         *)
(* connection closure or a timer still references them), one connection    *)
(* closure per WebSocket (readyState, the closure variable `room`, the     *)
(* fields addClient writes on ws, the authentication timer), the pending   *)
(* empty-room timers and the clock.  A connection's clientId is its index. *)
(* Every action is one handler of the source, run to completion (Node runs *)
(* a handler without interleaving until its first await).                  *)
(*                                                                         *)
(* The handlers modelled are those wss.on('connection') registers (lines   *)
(* 404-543) and the API routes.  The statements after startServer() (lines *)
(* 615-680) call ws.on on a name no scope declares, so they register       *)
(* nothing on any connection.  ws.close() starts the closing handshake:    *)
(* the socket is CLOSING, frames still arrive and ws.send drops its frame, *)
(* until the close event.  Timers of equal deadline run back to back, so   *)
(* the pending empty-room timers of a room are a set of deadlines.         *)
(* addMetrics does not await storeMetrics: the insertOne it starts is      *)
(* pending until a later step settles it, with success or with failure.    *)
(***************************************************************************)
EXTENDS Integers, Sequences, FiniteSets

(* ---------------------------------------------------------------- bounds *)
\* connections that may be opened
NumSessions == 2
\* room codes generateRoomCode may return
NumCodes == 2
\* MetricsRoom objects that may be constructed
MaxRooms == 2
\* metrics messages that may be ingested
MaxMetrics == 3
\* clock steps
MaxTicks == 2
\* CONFIG.MAX_CLIENTS_PER_ROOM (50 in the source), scaled
MAX_CLIENTS_PER_ROOM == 1
\* settings.maxMetricsHistory of a new room (1000 in the source), scaled
DefaultMaxMetricsHistory == 2
\* largest maxMetricsHistory a room_settings message carries
MaxHistoryInput == 1

(* ------------------------------------------------------ program constants *)
\* CONFIG.AUTH_TIMEOUT, ms
AUTH_TIMEOUT == 30000
\* delay of the empty-room timer, ms
EMPTY_ROOM_DELAY == 60000
\* the clock advances in steps of the shortest timer delay
TickMs == AUTH_TIMEOUT

Sessions == 1..NumSessions
Codes == 1..NumCodes
RoomIds == 1..MaxRooms
\* null / undefined reference, and the absent timer
Null == 0
NoTimer == -1
\* role of a hello: the two protocol roles, another non-empty string, a missing one
Roles == {"controller", "client", "other", ""}
\* code of a hello: a 6-hex-digit code, or missing
HelloCodes == Codes \cup {Null}
\* payload of a metrics message: entropy and breached, each possibly missing
NoField == -1
Payloads == { [entropy |-> 10, breached |-> "true"],
              [entropy |-> 30, breached |-> "false"],
              [entropy |-> NoField, breached |-> "missing"] }

VARIABLES
  rooms,        \* rooms: Map code -> MetricsRoom (Null: no entry)
  nextRoom,     \* MetricsRoom objects constructed so far
  code,         \* room.code
  controller,   \* room.controller
  clients,      \* room.clients (keys = values: a clientId is its connection)
  metrics,      \* room.metrics
  settings,     \* room.settings
  readyState,   \* ws.readyState ("NONE" before the connection exists)
  room,         \* closure variable room of a connection
  wsRole,       \* ws.role
  authTimeout,  \* deadline of the pending authentication timer, or NoTimer
  timers,       \* pending empty-room timers: [room, at]
  now,          \* Date.now()
  emptiedAt,    \* history: when the room last went from occupied to empty
  validHello,   \* history: the connection sent a hello with a protocol role that was accepted
  seq,          \* metrics ingested so far (stands for metricEntry.timestamp)
  pending,      \* the records (by number) whose insertOne has not settled yet
  lastFwd,      \* history: per clientId, the record its latest metrics forward carried
  out,          \* what the handler that ran last did, in order
  sockState,    \* serverr.js: readyState of its sockets ("NONE" before the connection)
  pairings      \* serverr.js: clients, Map code -> ws, as its entries in insertion order

vars == << rooms, nextRoom, code, controller, clients, metrics, settings,
           readyState, room, wsRole, authTimeout,
           timers, now, emptiedAt, validHello, seq, pending, lastFwd, out,
           sockState, pairings >>

roomVars == << code, controller, clients, metrics, settings >>
wsVars == << readyState, room, wsRole, authTimeout >>
ioVars == << pending, lastFwd >>
pairVars == << sockState, pairings >>
\* the state of metrics-host.js
hostVars == << rooms, nextRoom, roomVars, wsVars, timers, now, emptiedAt,
              validHello, seq, ioVars >>

(* ------------------------------------------------------------- MetricsRoom *)
NewSettings ==
  [maxMetricsHistory |-> DefaultMaxMetricsHistory, enableRealTime |-> TRUE, enableAlerts |-> TRUE]

\* one effect of a handler: op is "send" (a message `type` to connection `to`),
\* "close" (ws.close of `to` with reason `type`), "append" (a record pushed on
\* the buffer of room `to`), "store" (storeMetrics called), "checkAlerts" or
\* "log" (console.error of `type`) or "respond" (an HTTP response of status
\* `arg` and message `type`);
\* from: the clientId a message or record carries, arg: its clientCount or the
\* record's arrival number, alerts: the alert types of an alerts message
Ev(op, to, type, from, arg, alerts) ==
  [op |-> op, to |-> to, type |-> type, from |-> from, arg |-> arg, alerts |-> alerts]

Msg(to, type, from, arg) == Ev("send", to, type, from, arg, << >>)

Closed(ws, reason) == Ev("close", ws, reason, Null, 0, << >>)

\* sendToClient: ws.send only when ws.readyState is OPEN
SendToClient(ws, m) ==
  IF readyState[ws] = "OPEN" THEN << [m EXCEPT !.to = ws] >> ELSE << >>

\* sendToController: only to a controller that is set and OPEN
SendToController(r, m) ==
  IF controller[r] # Null /\ readyState[controller[r]] = "OPEN"
  THEN SendToClient(controller[r], m) ELSE << >>

\* a bare ws.send in a handler: the ws library drops the frame unless OPEN
WsSend(ws, type) ==
  IF readyState[ws] = "OPEN" THEN << Msg(ws, type, Null, 0) >> ELSE << >>

\* a close that leaves the socket as it is
WsClose_Noop(rs, ws) == rs

\* ws.close(code, reason): OPEN -> CLOSING; the close event follows later
WsClose(rs, ws) ==
  IF rs[ws] = "OPEN" THEN [rs EXCEPT ![ws] = "CLOSING"] ELSE rs

Init ==
  /\ rooms = [c \in Codes |-> Null]
  /\ nextRoom = 0
  /\ code = [r \in RoomIds |-> Null]
  /\ controller = [r \in RoomIds |-> Null]
  /\ clients = [r \in RoomIds |-> {}]
  /\ metrics = [r \in RoomIds |-> << >>]
  /\ settings = [r \in RoomIds |-> NewSettings]
  /\ readyState = [s \in Sessions |-> "NONE"]
  /\ room = [s \in Sessions |-> Null]
  /\ wsRole = [s \in Sessions |-> "undefined"]
  /\ authTimeout = [s \in Sessions |-> NoTimer]
  /\ timers = {}
  /\ now = 0
  /\ emptiedAt = [r \in RoomIds |-> NoTimer]
  /\ validHello = [s \in Sessions |-> FALSE]
  /\ seq = 0
  /\ pending = {}
  /\ lastFwd = [s \in Sessions |-> 0]
  /\ sockState = [s \in Sessions |-> "NONE"]
  /\ pairings = << >>
  /\ out = << >>

(* ------------------------------------------------------- Administrative API *)
\* POST /api/rooms: generateRoomCode() is random and is not checked against
\* the registry; rooms.set(roomCode, room) overwrites an entry of that code.
CreateRoom(c) ==
  /\ nextRoom < MaxRooms
  /\ LET r == nextRoom + 1 IN
       /\ nextRoom' = r
       /\ code' = [code EXCEPT ![r] = c]
       /\ rooms' = [rooms EXCEPT ![c] = r]
  /\ out' = << >>
  /\ UNCHANGED << controller, clients, metrics, settings, wsVars, timers, now,
                  emptiedAt, validHello, seq, ioVars, pairVars >>

\* the connections DELETE /api/rooms/:roomCode closes: room.controller and room.clients
DeleteCloses(r) ==
  (IF controller[r] # Null THEN {controller[r]} ELSE {}) \cup clients[r]

\* DELETE /api/rooms/:roomCode on a registered code
DeleteRoom(c) ==
  /\ rooms[c] # Null
  /\ LET r == rooms[c] IN
       readyState' = [s \in Sessions |->
                        IF s \in DeleteCloses(r) /\ readyState[s] = "OPEN"
                        THEN "CLOSING" ELSE readyState[s]]
  /\ rooms' = [rooms EXCEPT ![c] = Null]
  /\ out' = << >>
  /\ UNCHANGED << nextRoom, roomVars, room, wsRole, authTimeout,
                  timers, now, emptiedAt, validHello, seq, ioVars, pairVars >>

\* the response of an API route that reports a failure: its HTTP status and message
Failure(status, message) == Ev("respond", Null, message, Null, status, << >>)

\* POST /api/rooms when sessionsCollection.insertOne throws or rejects: the room
\* was constructed and registered before the await; the catch block answers 500
CreateRoomFails(c) ==
  /\ nextRoom < MaxRooms
  /\ LET r == nextRoom + 1 IN
       /\ nextRoom' = r
       /\ code' = [code EXCEPT ![r] = c]
       /\ rooms' = [rooms EXCEPT ![c] = r]
  /\ out' = << Failure(500, "Failed to create room") >>
  /\ UNCHANGED << controller, clients, metrics, settings, wsVars, timers, now,
                  emptiedAt, validHello, seq, ioVars, pairVars >>

\* DELETE /api/rooms/:roomCode when sessionsCollection.deleteOne throws or
\* rejects: the connections were closed and the entry deleted before the await
DeleteRoomFails(c) ==
  /\ rooms[c] # Null
  /\ LET r == rooms[c] IN
       readyState' = [s \in Sessions |->
                        IF s \in DeleteCloses(r) /\ readyState[s] = "OPEN"
                        THEN "CLOSING" ELSE readyState[s]]
  /\ rooms' = [rooms EXCEPT ![c] = Null]
  /\ out' = << Failure(500, "Failed to delete room") >>
  /\ UNCHANGED << nextRoom, roomVars, room, wsRole, authTimeout,
                  timers, now, emptiedAt, validHello, seq, ioVars, pairVars >>

\* DELETE /api/rooms/:roomCode on a code that is not registered: 404
DeleteRoomNotFound(c) ==
  /\ rooms[c] = Null
  /\ out' = << Failure(404, "Room not found") >>
  /\ UNCHANGED << rooms, nextRoom, roomVars, wsVars, timers, now, emptiedAt,
                  validHello, seq, ioVars, pairVars >>

(* ------------------------------------------------------- wss.on('connection') *)
\* a new connection: clientId, room = null, the authentication timer
Connect(s) ==
  /\ readyState[s] = "NONE"
  /\ \A t \in Sessions : t < s => readyState[t] # "NONE"
  /\ readyState' = [readyState EXCEPT ![s] = "OPEN"]
  /\ authTimeout' = [authTimeout EXCEPT ![s] = now + AUTH_TIMEOUT]
  /\ out' = << >>
  /\ UNCHANGED << rooms, nextRoom, roomVars, room, wsRole, timers,
                  now, emptiedAt, validHello, seq, ioVars, pairVars >>

\* a message event is delivered while the socket is OPEN, and still while it is
\* CLOSING (frames received before the peer's close frame)
Receiving(s) == readyState[s] \in {"OPEN", "CLOSING"}

\* the capacity check of the hello branch
RoomIsFull(role, r) ==
  role = "client" /\ Cardinality(clients[r]) >= MAX_CLIENTS_PER_ROOM

\* addClient: which slot the connection is stored in
AddsAsController(role) == role = "controller"

\* addClient: the messages it sends (room_info, then client_joined)
AddClientOut(r, s, role, ctrl, cl) ==
  SendToClient(s, Msg(s, "room_info", s, Cardinality(cl[r])))
  \o (IF role = "client" /\ ctrl[r] # Null
      THEN SendToClient(ctrl[r], Msg(ctrl[r], "client_joined", s, Cardinality(cl[r])))
      ELSE << >>)

\* the hello branch of the message handler
Hello(s, role, c) ==
  /\ Receiving(s)
  /\ authTimeout' = [authTimeout EXCEPT ![s] = NoTimer]
  /\ UNCHANGED << rooms, nextRoom, code, metrics, settings, timers,
                  now, emptiedAt, seq, ioVars, pairVars >>
  /\ IF role = "" \/ c = Null
     THEN /\ readyState' = WsClose(readyState, s)
          /\ out' = << Closed(s, "Invalid authentication") >>
          /\ UNCHANGED << controller, clients, room, wsRole, validHello >>
     ELSE IF rooms[c] = Null
     THEN /\ readyState' = WsClose(readyState, s)
          /\ out' = WsSend(s, "error") \o << Closed(s, "Invalid room code") >>
          /\ UNCHANGED << controller, clients, room, wsRole, validHello >>
     ELSE LET r == rooms[c] IN
          /\ room' = [room EXCEPT ![s] = r]
          /\ IF RoomIsFull(role, r)
             THEN /\ readyState' = WsClose(readyState, s)
                  /\ out' = WsSend(s, "error") \o << Closed(s, "Room is full") >>
                  /\ UNCHANGED << controller, clients, wsRole, validHello >>
             ELSE /\ controller' = IF AddsAsController(role)
                                   THEN [controller EXCEPT ![r] = s] ELSE controller
                  /\ clients' = IF AddsAsController(role)
                                THEN clients ELSE [clients EXCEPT ![r] = @ \cup {s}]
                  /\ wsRole' = [wsRole EXCEPT ![s] =
                                  IF AddsAsController(role) THEN "controller" ELSE "client"]
                  /\ validHello' = [validHello EXCEPT ![s] =
                                      @ \/ role \in {"controller", "client"}]
                  /\ out' = AddClientOut(r, s, role, controller', clients')
                  /\ UNCHANGED readyState

\* removeClient: the slot it clears
RemoveController(r, s, role) ==
  IF role = "controller" THEN [controller EXCEPT ![r] = Null] ELSE controller

RemoveClients(r, s, role) ==
  IF role = "controller" THEN clients ELSE [clients EXCEPT ![r] = @ \ {s}]

\* removeClient: client_left to the controller
RemoveClientOut(r, s, role, ctrl, cl) ==
  IF role = "client" /\ ctrl[r] # Null
  THEN SendToClient(ctrl[r], Msg(ctrl[r], "client_left", s, Cardinality(cl[r])))
  ELSE << >>

Occupied(r, ctrl, cl) == cl[r] # {} \/ ctrl[r] # Null

\* ws.on('close'): by the peer or a failure (from OPEN), or completing a close
\* the server started (from CLOSING)
OnClose(s) ==
  /\ Receiving(s)
  /\ readyState' = [readyState EXCEPT ![s] = "CLOSED"]
  /\ authTimeout' = [authTimeout EXCEPT ![s] = NoTimer]
  /\ IF room[s] # Null
     THEN LET r == room[s] IN
          /\ controller' = RemoveController(r, s, wsRole[s])
          /\ clients' = RemoveClients(r, s, wsRole[s])
          /\ out' = RemoveClientOut(r, s, wsRole[s], controller', clients')
          /\ timers' = IF ~Occupied(r, controller', clients')
                       THEN timers \cup {[room |-> r, at |-> now + EMPTY_ROOM_DELAY]}
                       ELSE timers
          /\ emptiedAt' = IF Occupied(r, controller, clients)
                             /\ ~Occupied(r, controller', clients')
                          THEN [emptiedAt EXCEPT ![r] = now] ELSE emptiedAt
     ELSE /\ out' = << >>
          /\ UNCHANGED << controller, clients, timers, emptiedAt >>
  /\ UNCHANGED << rooms, nextRoom, code, metrics, settings, room, wsRole,
                  now, validHello, seq, ioVars, pairVars >>

(* ------------------------------------------------------------------ metrics *)
Min(a, b) == IF a < b THEN a ELSE b
Max(a, b) == IF a > b THEN a ELSE b

\* Array.prototype.slice(start): from Len + start for a negative start, else from
\* start; slice(-0) is slice(0), the whole array
Slice(m, start) ==
  LET k == IF start < 0 THEN Max(Len(m) + start, 0) ELSE Min(start, Len(m))
  IN  SubSeq(m, k + 1, Len(m))

\* addMetrics: "keep only recent metrics"
KeepRecent(m, maxMetricsHistory) ==
  IF Len(m) > maxMetricsHistory THEN Slice(m, 0 - maxMetricsHistory) ELSE m

\* the metricEntry of addMetrics; n stands for its timestamp / receivedAt
MetricEntry(r, clientId, n) == [clientId |-> clientId, roomCode |-> code[r], n |-> n]

\* checkAlerts with the breached rule left out
Alerts_LowEntropyOnly(payload) ==
  IF payload.entropy # NoField /\ payload.entropy < 20 THEN << "low_entropy" >> ELSE << >>

\* checkAlerts: the alert types a payload raises (a missing field compares false)
Alerts(payload) ==
  (IF payload.entropy # NoField /\ payload.entropy < 20 THEN << "low_entropy" >> ELSE << >>)
  \o (IF payload.breached = "true" THEN << "breached_password" >> ELSE << >>)

CheckAlerts(r, clientId, payload) ==
  IF ~settings[r].enableAlerts THEN << >>
  ELSE IF Len(Alerts(payload)) > 0
       THEN SendToController(r, Ev("send", Null, "alerts", Null, 0, Alerts(payload)))
       ELSE << >>

\* addMetrics forwarding the record before the one it was called with
AddMetricsOut_ForwardStale(r, clientId, payload, n) ==
  << Ev("append", r, "", clientId, n, << >>) >>
  \o << Ev("store", r, "", clientId, n, << >>) >>
  \o SendToController(r, Msg(Null, "metrics", clientId, n - 1))
  \o << Ev("checkAlerts", r, "", clientId, n, << >>) >>
  \o CheckAlerts(r, clientId, payload)

\* addMetrics with the forward moved before storeMetrics
AddMetricsOut_ForwardFirst(r, clientId, payload, n) ==
  << Ev("append", r, "", clientId, n, << >>) >>
  \o SendToController(r, Msg(Null, "metrics", clientId, n))
  \o << Ev("store", r, "", clientId, n, << >>) >>
  \o << Ev("checkAlerts", r, "", clientId, n, << >>) >>
  \o CheckAlerts(r, clientId, payload)

\* addMetrics after the push: storeMetrics, the forward, checkAlerts, in this order
AddMetricsOut(r, clientId, payload, n) ==
  << Ev("append", r, "", clientId, n, << >>) >>
  \o << Ev("store", r, "", clientId, n, << >>) >>
  \o SendToController(r, Msg(Null, "metrics", clientId, n))
  \o << Ev("checkAlerts", r, "", clientId, n, << >>) >>
  \o CheckAlerts(r, clientId, payload)

\* the record number of the latest metrics forward of each clientId, after the
\* effects o
RECURSIVE Forwarded(_, _)
Forwarded(last, o) ==
  IF o = << >> THEN last
  ELSE Forwarded(IF Head(o).op = "send" /\ Head(o).type = "metrics"
                 THEN [last EXCEPT ![Head(o).from] = Head(o).arg] ELSE last,
                 Tail(o))

\* the guard of the metrics branch with the role test left out
MetricsBranch_AnyRole(s) == room[s] # Null

\* the guard of the metrics branch: room && ws.role === 'client'
MetricsBranch(s) == room[s] # Null /\ wsRole[s] = "client"

\* the guard of the room_settings branch: room && ws.role === 'controller'
SettingsBranch(s) == room[s] # Null /\ wsRole[s] = "controller"

\* the metrics branch of the message handler, payload present
Metrics(s, payload) ==
  /\ Receiving(s)
  /\ MetricsBranch(s)
  /\ seq < MaxMetrics
  /\ LET r == room[s] IN
       /\ metrics' = [metrics EXCEPT ![r] =
                        KeepRecent(Append(@, MetricEntry(r, s, seq + 1)),
                                   settings[r].maxMetricsHistory)]
       /\ out' = AddMetricsOut(r, s, payload, seq + 1)
  /\ seq' = seq + 1
  /\ pending' = pending \cup {seq + 1}
  /\ lastFwd' = Forwarded(lastFwd, out')
  /\ UNCHANGED << rooms, nextRoom, code, controller, clients, settings, wsVars,
                  timers, now, emptiedAt, validHello, pairVars >>

\* storeMetrics reporting a failure on a socket
StoreMetricsOut_Propagates(n, ok) ==
  IF ok THEN << >> ELSE << Ev("send", Null, "error", Null, n, << >>) >>

\* storeMetrics after its await: nothing on success, console.error on failure
StoreMetricsOut(n, ok) ==
  IF ok THEN << >>
  ELSE << Ev("log", Null, "Failed to store metrics", Null, n, << >>) >>

\* the insertOne of record n settles: resolved (ok) or rejected
StoreSettles(n, ok) ==
  /\ n \in pending
  /\ pending' = pending \ {n}
  /\ out' = StoreMetricsOut(n, ok)
  /\ lastFwd' = Forwarded(lastFwd, out')
  /\ UNCHANGED << rooms, nextRoom, roomVars, wsVars, timers, now, emptiedAt,
                  validHello, seq, pairVars >>

\* { ...room.settings, ...settings }
Merge(old, partial) ==
  [k \in DOMAIN old |-> IF k \in DOMAIN partial THEN partial[k] ELSE old[k]]

\* the settings objects a room_settings message carries
HistoryInputs == { [maxMetricsHistory |-> v] : v \in 0..MaxHistoryInput }
AlertsInputs == { [enableAlerts |-> b] : b \in BOOLEAN }
RealTimeInputs == { [enableRealTime |-> b] : b \in BOOLEAN }

\* the room_settings branch of the message handler, settings present
RoomSettings(s, partial) ==
  /\ Receiving(s)
  /\ SettingsBranch(s)
  /\ LET r == room[s] IN
       /\ settings' = [settings EXCEPT ![r] = Merge(@, partial)]
       /\ out' = SendToController(r, Msg(Null, "settings_updated", Null, 0))
  /\ UNCHANGED << rooms, nextRoom, code, controller, clients, metrics, wsVars,
                  timers, now, emptiedAt, validHello, seq, ioVars, pairVars >>

\* the types of the messages other than hello and ping; the handler has no
\* branch for 'relay', which stands for every other type as well
MsgTypes == {"metrics", "room_settings", "relay"}

\* a message that no branch acts on: its type has no branch, or the guard of
\* its branch is false, or its payload / settings field is missing (body FALSE);
\* the handler reaches its end with nothing sent and nothing changed
Dropped(s, type, body) ==
  /\ Receiving(s)
  /\ ~(type = "metrics" /\ MetricsBranch(s) /\ body)
  /\ ~(type = "room_settings" /\ SettingsBranch(s) /\ body)
  /\ out' = << >>
  /\ UNCHANGED << rooms, nextRoom, roomVars, wsVars, timers, now, emptiedAt,
                  validHello, seq, ioVars, pairVars >>

\* a message whose body JSON.parse rejects: the catch block answers with an
\* error message; nothing else changes
ParseError(s) ==
  /\ Receiving(s)
  /\ out' = WsSend(s, "error")
  /\ UNCHANGED << rooms, nextRoom, roomVars, wsVars, timers, now, emptiedAt,
                  validHello, seq, ioVars, pairVars >>

(* -------------------------------------------------------------------- timers *)
\* the authentication timer's callback
AuthTimeoutFires(s) ==
  /\ authTimeout[s] # NoTimer
  /\ now >= authTimeout[s]
  /\ authTimeout' = [authTimeout EXCEPT ![s] = NoTimer]
  /\ IF room[s] = Null
     THEN /\ readyState' = WsClose(readyState, s)
          /\ out' = << Closed(s, "Authentication timeout") >>
     ELSE /\ out' = << >>
          /\ UNCHANGED readyState
  /\ UNCHANGED << rooms, nextRoom, roomVars, room, wsRole,
                  timers, now, emptiedAt, validHello, seq, ioVars, pairVars >>

\* the empty-room timer's callback: rooms.delete(room.code) if the object is empty
EmptyRoomTimerFires(t) ==
  /\ t \in timers
  /\ now >= t.at
  /\ timers' = timers \ {t}
  /\ rooms' = IF ~Occupied(t.room, controller, clients)
              THEN [rooms EXCEPT ![code[t.room]] = Null] ELSE rooms
  /\ out' = << >>
  /\ UNCHANGED << nextRoom, roomVars, wsVars, now, emptiedAt, validHello, seq, ioVars, pairVars >>

\* a timer whose delay has elapsed runs before the clock moves on
TimerDue ==
  \/ \E s \in Sessions : authTimeout[s] # NoTimer /\ authTimeout[s] <= now
  \/ \E t \in timers : t.at <= now

Tick ==
  /\ now < MaxTicks * TickMs
  /\ ~TimerDue
  /\ now' = now + TickMs
  /\ out' = << >>
  /\ UNCHANGED << rooms, nextRoom, roomVars, wsVars, timers, emptiedAt,
                  validHello, seq, ioVars, pairVars >>

\* the handlers of membership: the API, connections, hello, close
Membership(S, C) ==
  \/ \E c \in C : CreateRoom(c)
  \/ \E c \in C : DeleteRoom(c)
  \/ \E s \in S : Connect(s)
  \/ \E s \in S, role \in Roles, c \in C \cup {Null} : Hello(s, role, c)
  \/ \E s \in S : OnClose(s)

Timers ==
  \/ \E s \in Sessions : AuthTimeoutFires(s)
  \/ \E t \in timers : EmptyRoomTimerFires(t)
  \/ Tick

Ingestion(S, I) ==
  \/ \E s \in S, payload \in Payloads : Metrics(s, payload)
  \/ \E s \in S, partial \in I : RoomSettings(s, partial)

(* ----------------------------------------------- serverr.js: pairing server *)

\* clients.get(code): the socket stored under the code, Null (undefined) without one
ClientsGet(m, c) ==
  LET I == { i \in 1..Len(m) : m[i].code = c } IN
    IF I = {} THEN Null ELSE m[CHOOSE i \in I : TRUE].ws

\* clients.set(code, ws): a new key is appended to the Map's entries, a key
\* that is already there keeps its place and takes the new socket
ClientsSet(m, c, ws) ==
  IF \E i \in 1..Len(m) : m[i].code = c
  THEN [i \in 1..Len(m) |-> IF m[i].code = c THEN [code |-> c, ws |-> ws] ELSE m[i]]
  ELSE Append(m, [code |-> c, ws |-> ws])

\* the loop of the close handler: clients.delete of the first entry, in
\* insertion order, whose socket is ws, then break
DeleteFirst(m, ws) ==
  LET I == { i \in 1..Len(m) : m[i].ws = ws } IN
    IF I = {} THEN m
    ELSE LET k == CHOOSE i \in I : \A j \in I : i <= j IN
           SubSeq(m, 1, k - 1) \o SubSeq(m, k + 1, Len(m))

\* wss.on("connection") of the pairing server
PairConnect(s) ==
  /\ sockState[s] = "NONE"
  /\ sockState' = [sockState EXCEPT ![s] = "OPEN"]
  /\ out' = << >>
  /\ UNCHANGED << hostVars, pairings >>

\* message { type: "pair", code }
Pair(s, c) ==
  /\ sockState[s] = "OPEN"
  /\ pairings' = ClientsSet(pairings, c, s)
  /\ out' = << Msg(s, "paired", Null, c) >>
  /\ UNCHANGED << hostVars, sockState >>

\* message { type: "metrics", code, payload }
PairMetrics(s, c) ==
  /\ sockState[s] = "OPEN"
  /\ LET viewer == ClientsGet(pairings, c) IN
       out' = IF viewer # Null /\ viewer # s /\ sockState[viewer] = "OPEN"
              THEN << Msg(viewer, "metrics", Null, c) >>
              ELSE << >>
  /\ UNCHANGED << hostVars, pairVars >>

\* ws.on("close") of the pairing server
PairClose(s) ==
  /\ sockState[s] = "OPEN"
  /\ sockState' = [sockState EXCEPT ![s] = "CLOSED"]
  /\ pairings' = DeleteFirst(pairings, s)
  /\ out' = << >>
  /\ UNCHANGED hostVars

\* membership, in the time before the first timer is due
Next == Membership(Sessions, Codes)

Spec == Init /\ [][Next]_vars

\* one room code; which one is immaterial, the handlers treat all codes alike
SomeCode == CHOOSE c \in Codes : TRUE

\* membership and the timers, rooms created under one code
NextTimers == Membership(Sessions, {SomeCode}) \/ Timers

SpecTimers == Init /\ [][NextTimers]_vars

\* membership of the first room created and ingestion into it
NextMetrics ==
  \/ (nextRoom = 0 /\ CreateRoom(SomeCode))
  \/ DeleteRoom(SomeCode)
  \/ \E s \in Sessions : Connect(s)
  \/ \E s \in Sessions, role \in Roles, c \in {SomeCode, Null} : Hello(s, role, c)
  \/ \E s \in Sessions : OnClose(s)
  \/ Ingestion(Sessions, HistoryInputs \cup AlertsInputs \cup RealTimeInputs)

SpecMetrics == Init /\ [][NextMetrics]_vars

\* one room: joins, closes, ingestion, and the settling of its persistence I/O
NextPersist ==
  \/ (nextRoom = 0 /\ CreateRoom(SomeCode))
  \/ \E s \in Sessions : Connect(s)
  \/ \E s \in Sessions, role \in Roles \ {""} : Hello(s, role, SomeCode)
  \/ \E s \in Sessions : OnClose(s)
  \/ \E s \in Sessions, payload \in Payloads : Metrics(s, payload)
  \/ \E n \in 1..MaxMetrics, ok \in BOOLEAN : StoreSettles(n, ok)

SpecPersist == Init /\ [][NextPersist]_vars

\* the payload the routing of messages is explored with
SomePayload == CHOOSE payload \in Payloads : payload.breached = "true"

\* two rooms: joins with the protocol roles, and every message type from
\* every connection
NextRouting ==
  \/ \E c \in Codes : rooms[c] = Null /\ CreateRoom(c)
  \/ \E s \in Sessions : Connect(s)
  \/ \E s \in Sessions, role \in {"controller", "client"}, c \in Codes : Hello(s, role, c)
  \/ \E s \in Sessions : Metrics(s, SomePayload)
  \/ \E s \in Sessions, type \in MsgTypes, body \in BOOLEAN : Dropped(s, type, body)

SpecRouting == Init /\ [][NextRouting]_vars

\* one room: joins, closes, and the messages the handler does not act on
NextProtocol ==
  \/ (nextRoom = 0 /\ CreateRoom(SomeCode))
  \/ \E s \in Sessions : Connect(s)
  \/ \E s \in Sessions, role \in {"controller", "client"} : Hello(s, role, SomeCode)
  \/ \E s \in Sessions : OnClose(s)
  \/ \E s \in Sessions : ParseError(s)
  \/ \E s \in Sessions, type \in MsgTypes, body \in BOOLEAN : Dropped(s, type, body)

SpecProtocol == Init /\ [][NextProtocol]_vars

\* all joins and closes happen at time 0, then only the clock and the timers run;
\* a timer that is due is eventually run, and the clock eventually advances
NextReclaim ==
  \/ (now = 0 /\ Membership(Sessions, {SomeCode}))
  \/ Timers

SpecReclaim ==
  /\ Init /\ [][NextReclaim]_vars
  /\ WF_vars(Tick)
  /\ WF_vars(\E s \in Sessions : AuthTimeoutFires(s))
  /\ WF_vars(\E t \in timers : EmptyRoomTimerFires(t))

\* membership under one code, with API requests that fail
NextAdmin ==
  \/ Membership(Sessions, {SomeCode})
  \/ CreateRoomFails(SomeCode)
  \/ DeleteRoomFails(SomeCode)
  \/ DeleteRoomNotFound(SomeCode)

SpecAdmin == Init /\ [][NextAdmin]_vars

\* the pairing server of serverr.js alone
NextPairing ==
  \/ \E s \in Sessions : PairConnect(s)
  \/ \E s \in Sessions, c \in Codes : Pair(s, c)
  \/ \E s \in Sessions, c \in Codes : PairMetrics(s, c)
  \/ \E s \in Sessions : PairClose(s)

SpecPairing == Init /\ [][NextPairing]_vars

(* ------------------------------------------------------------------- claims *)
\* the MetricsRoom objects the registry holds
Live == { rooms[c] : c \in Codes } \ {Null}

\* the slots of room r that reference connection s
Slots(r, s, ctrl, cl) ==
  (IF ctrl[r] = s THEN {"controller"} ELSE {}) \cup (IF s \in cl[r] THEN {"client"} ELSE {})

Member(s) == \E r \in RoomIds : Slots(r, s, controller, clients) # {}

\* C1: a room never holds more than MAX_CLIENTS_PER_ROOM client connections,
\* whatever the role field of the hellos it received.
C1_ClientsWithinCap ==
  \A r \in RoomIds : Cardinality(clients[r]) <= MAX_CLIENTS_PER_ROOM

\* C2: once a connection's socket has closed, no registered room references it,
\* neither in its controller slot nor in its client map.
C2_ClosedIsUnreferenced ==
  \A s \in Sessions : readyState[s] = "CLOSED" =>
    \A r \in Live : Slots(r, s, controller, clients) = {}

\* C3: the close of connection s leaves the controller slot and the client
\* entries of every other connection, in every room, as they were.
C3_CloseIsLocal ==
  [][\A s \in Sessions : OnClose(s) =>
       \A r \in RoomIds :
         /\ (controller[r] # s => controller'[r] = controller[r])
         /\ clients'[r] \ {s} = clients[r] \ {s}]_vars

\* C4: when the empty-room timer of a registered room removes it, a full grace
\* period has passed since the room last became empty.
C4_FullGracePeriod ==
  [][\A t \in timers :
       (EmptyRoomTimerFires(t) /\ rooms[code[t.room]] = t.room /\ rooms' # rooms)
         => now - emptiedAt[t.room] >= EMPTY_ROOM_DELAY]_vars

\* C5: createRoom registers the new room under a code that no live room has.
C5_CreateUsesFreshCode ==
  [][\A c \in Codes : CreateRoom(c) => rooms[c] = Null]_vars

\* C6: a room's buffer is never longer than its configured maxMetricsHistory.
C6_BufferWithinHistory ==
  \A r \in RoomIds : Len(metrics[r]) <= settings[r].maxMetricsHistory

\* C7: a hello whose role is neither 'controller' nor 'client' attaches the
\* connection to no room and closes it.
C7_OtherRoleRejected ==
  [][\A s \in Sessions, c \in HelloCodes :
       Hello(s, "other", c) =>
         /\ \A r \in RoomIds :
              Slots(r, s, controller', clients') = Slots(r, s, controller, clients)
         /\ readyState'[s] # "OPEN"]_vars

\* C8: once a hello has given a connection its role, no later step changes the
\* role or the room of the connection or stores it in a further slot.
C8_RoleAssignedOnce ==
  [][\A s \in Sessions : wsRole[s] # "undefined" =>
       /\ wsRole'[s] = wsRole[s]
       /\ room'[s] = room[s]
       /\ \A r \in RoomIds :
            Slots(r, s, controller', clients') \subseteq Slots(r, s, controller, clients)]_vars

\* C9: a connection that has sent no valid hello is in no room's controller slot
\* or client map and, while open, still has its authentication timer pending;
\* the timer closes only connections that sent no valid hello.
C9_NoHelloNoMembership ==
  \A s \in Sessions :
    /\ ~validHello[s] =>
         /\ ~Member(s)
         /\ (readyState[s] = "OPEN" => authTimeout[s] # NoTimer)
    /\ (out = << Closed(s, "Authentication timeout") >> => ~validHello[s])

\* the effects of an ingestion, in order: one append, one storeMetrics, one
\* metrics forward to the controller iff the room is in Forwarding, then checkAlerts
IngestionInOrder(Forwarding) ==
  (Len(out) > 0 /\ out[1].op = "append") =>
    LET r == out[1].to
        from == out[1].from
        n == out[1].arg
        k == IF r \in Forwarding THEN 4 ELSE 3
    IN  /\ Len(metrics[r]) > 0 /\ metrics[r][Len(metrics[r])] = MetricEntry(r, from, n)
        /\ Len(out) >= k
        /\ out[2] = Ev("store", r, "", from, n, << >>)
        /\ r \in Forwarding => out[3] = Msg(controller[r], "metrics", from, n)
        /\ out[k] = Ev("checkAlerts", r, "", from, n, << >>)
        /\ \A i \in (k + 1)..Len(out) : out[i].op = "send" /\ out[i].type = "alerts"

ControllerAttached == { r \in RoomIds : controller[r] # Null }

ControllerWritable ==
  { r \in RoomIds : controller[r] # Null /\ readyState[controller[r]] = "OPEN" }

\* C10 as stated: every ingestion appends, stores once, forwards one metrics
\* message to the controller if one is attached, then evaluates the alerts.
C10_ForwardIfAttached == IngestionInOrder(ControllerAttached)

\* C10 as amended: every ingestion appends, stores once, forwards one metrics
\* message to the controller if one is attached and its socket is OPEN (none
\* otherwise), then evaluates the alerts.
C10_ForwardIfWritable == IngestionInOrder(ControllerWritable)

\* an ingestion whose metrics message reached the controller
C10_Witness ==
  /\ Len(out) >= 4 /\ out[1].op = "append"
  /\ out[3].op = "send" /\ out[3].type = "metrics"
  /\ out[4].op = "checkAlerts"

\* the alerts messages among the effects o of a handler
AlertsSent(o) == SelectSeq(o, LAMBDA e : e.op = "send" /\ e.type = "alerts")

Range(f) == { f[i] : i \in DOMAIN f }

\* an ingestion into a room of Evaluating whose controller is writable sends the
\* controller at most one alerts message: it holds low_entropy iff entropy < 20
\* and breached_password iff breached is true; none when neither rule triggers;
\* checkAlerts is reached in every case
AlertsAsRuled(Evaluating) ==
  \A s \in Sessions, payload \in Payloads :
    (Metrics(s, payload) /\ room[s] \in ControllerWritable \cap Evaluating) =>
      LET a == AlertsSent(out')
          low == payload.entropy # NoField /\ payload.entropy < 20
          breached == payload.breached = "true"
      IN  /\ Len(a) <= 1
          /\ (low \/ breached) =>
               /\ Len(a) = 1
               /\ a[1].to = controller[room[s]]
               /\ "low_entropy" \in Range(a[1].alerts) <=> low
               /\ "breached_password" \in Range(a[1].alerts) <=> breached
          /\ ~(low \/ breached) => Len(a) = 0
          /\ \E i \in 1..Len(out') : out'[i].op = "checkAlerts"

AlertsEnabled == { r \in RoomIds : settings[r].enableAlerts }

C12_RecordOfRegisteredMember ==
  [][\A s \in Sessions, payload \in Payloads :
       Metrics(s, payload) =>
         LET e == out'[1] IN
           /\ e.op = "append" /\ e.from = s
           /\ metrics'[e.to][Len(metrics'[e.to])].roomCode = code[e.to]
           /\ s \in clients[e.to]
           /\ rooms[code[e.to]] = e.to]_vars

\* C13: deleting a registered room closes every connection that authenticated
\* into it and is still open (its controller, a controller replaced in the slot,
\* its clients), and afterwards the code resolves to no room.
C13_DeleteClosesAll ==
  [][\A c \in Codes :
       DeleteRoom(c) =>
         /\ rooms'[c] = Null
         /\ \A s \in Sessions :
              (readyState[s] = "OPEN" /\ wsRole[s] # "undefined" /\ room[s] = rooms[c])
                => readyState'[s] # "OPEN"]_vars

\* a hello of a connection in Senders that carries a role and a code, the code
\* in no registry entry: an error message to the sender, then its close; no
\* room is constructed, no registry entry and no membership changes
UnknownCodeRejected(Senders) ==
  \A s \in Senders, role \in Roles \ {""}, c \in Codes :
    (Hello(s, role, c) /\ rooms[c] = Null) =>
      /\ out' = << Msg(s, "error", Null, 0), Closed(s, "Invalid room code") >>
      /\ readyState'[s] # "OPEN"
      /\ rooms' = rooms /\ nextRoom' = nextRoom
      /\ controller' = controller /\ clients' = clients

OpenSessions == { s \in Sessions : readyState[s] = "OPEN" }

C15_ClientForwardsInOrder ==
  [][\A i \in 1..Len(out') :
       (out'[i].op = "send" /\ out'[i].type = "metrics")
         => out'[i].arg > lastFwd[out'[i].from]]_vars

\* a client's record forwarded after a record of another client, while the
\* insertOne of the first record is still outstanding
C15_Witness ==
  \E s, t \in Sessions, i \in 1..Len(out) :
    /\ s # t /\ lastFwd[t] = 2
    /\ out[i].op = "send" /\ out[i].type = "metrics"
    /\ out[i].from = s /\ out[i].arg = 3
    /\ 1 \in pending

\* the connections whose metrics messages are ingested
Ingesting == { s \in Sessions : Receiving(s) /\ room[s] # Null /\ wsRole[s] = "client" }

\* C16: the forward and the alert evaluation of a metric are done while its
\* insertOne is still outstanding, whatever became of earlier ones; an
\* insertOne that fails sends nothing, closes nothing and changes no room and
\* no connection, and every connection that could ingest before still can.
C16_PersistenceIsIndependent ==
  /\ [][/\ \A s \in Sessions, payload \in Payloads :
             Metrics(s, payload) =>
               /\ seq' \in pending'
               /\ \E i \in 1..Len(out') : out'[i].op = "checkAlerts"
               /\ room[s] \in ControllerWritable =>
                    \E i \in 1..Len(out') : out'[i] = Msg(controller[room[s]], "metrics", s, seq')
        /\ \A n \in 1..MaxMetrics :
             StoreSettles(n, FALSE) =>
               /\ \A i \in 1..Len(out') : out'[i].op \notin {"send", "close"}
               /\ UNCHANGED << rooms, roomVars, wsVars >>
               /\ Ingesting' = Ingesting]_vars
  /\ [](\A s \in Ingesting : seq < MaxMetrics => \A payload \in Payloads : ENABLED Metrics(s, payload))

\* an insertOne has just failed and a client can still have a metric ingested
C16_Witness ==
  /\ \E n \in 1..MaxMetrics : out = StoreMetricsOut(n, FALSE)
  /\ \E s \in Ingesting, payload \in Payloads : ENABLED Metrics(s, payload)

\* C17: the settings of a room change only by a room_settings message of the
\* connection that holds the room's controller slot; the new settings are the
\* old ones overridden by the fields supplied, and they are echoed to the sender.
C17_SettingsByControllerOnly ==
  [][\A r \in RoomIds :
       settings'[r] # settings[r] =>
         \E s \in Sessions, partial \in HistoryInputs \cup AlertsInputs \cup RealTimeInputs :
           /\ RoomSettings(s, partial)
           /\ room[s] = r /\ controller[r] = s
           /\ settings'[r] = Merge(settings[r], partial)
           /\ out' = << Msg(s, "settings_updated", Null, 0) >>]_vars

\* C18: a relay message of a room's controller is sent to every client of that
\* room whose socket is OPEN and to no connection of another room; a relay
\* message of a client is sent to nobody.
C18_RelayReachesClients ==
  [][\A s \in Sessions :
       (Dropped(s, "relay", TRUE) /\ room[s] # Null) =>
         LET r == room[s]
             relayed == { out'[i].to : i \in { j \in 1..Len(out') :
                            out'[j].op = "send" /\ out'[j].type = "relay" } }
         IN  IF wsRole[s] = "controller"
             THEN relayed = { cl \in clients[r] : readyState[cl] = "OPEN" }
             ELSE relayed = {}]_vars

\* the rooms whose client map holds connection s
RoomsOf(s) == { r \in RoomIds : s \in clients[r] }

\* C19: the metrics and alerts messages that a client's metrics message
\* produces go only to the controller of a room the client is a member of,
\* and never to a connection that is a client.
C19_TelemetryStaysInRoom ==
  [][\A s \in Sessions, payload \in Payloads :
       Metrics(s, payload) =>
         \A i \in 1..Len(out') :
           (out'[i].op = "send" /\ out'[i].type \in {"metrics", "alerts"}) =>
             /\ \E r \in RoomsOf(s) : controller[r] = out'[i].to
             /\ RoomsOf(out'[i].to) = {}]_vars

\* C20: a connection on which no hello has succeeded (addClient never ran for
\* it) causes no effect in any room: whatever metrics, room_settings or relay
\* message it sends, no buffer, no settings and no persistence I/O changes and
\* nothing is forwarded or alerted.
C20_NoEffectBeforeHello ==
  [][\A s \in Sessions :
       (/\ wsRole[s] = "undefined"
        /\ \/ \E payload \in Payloads : Metrics(s, payload)
           \/ \E partial \in HistoryInputs \cup AlertsInputs \cup RealTimeInputs :
                RoomSettings(s, partial)
           \/ \E type \in MsgTypes, body \in BOOLEAN : Dropped(s, type, body))
         => /\ UNCHANGED << metrics, settings, pending >>
            /\ out' = << >>]_vars

\* every room and connection exists, a connection whose hello was rejected as
\* 'Room is full' (room assigned, no role) is still receiving, and the message
\* handled last had no effect
C20_Witness ==
  /\ nextRoom = MaxRooms
  /\ \A s \in Sessions : readyState[s] # "NONE"
  /\ \E s \in Sessions :
       wsRole[s] = "undefined" /\ room[s] # Null /\ readyState[s] = "CLOSING"
  /\ out = << >>

\* the messages of type ty among the effects o that are sent to connection to
SentTo(o, to, ty) == SelectSeq(o, LAMBDA e : e.op = "send" /\ e.type = ty /\ e.to = to)

\* C21: when a connection enters or leaves the client map of a room whose
\* controller is writable, the controller is sent exactly one client_joined /
\* client_left carrying the client count after the change, and the joining
\* connection is sent exactly one room_info; no client_left names a connection
\* that was not in the client map of the receiving controller's room.
C21_JoinLeaveNotified ==
  [][/\ \A r \in RoomIds, s \in Sessions :
          (/\ r \in ControllerWritable
           /\ (s \in clients[r]) # (s \in clients'[r])
           /\ clients'[r] \ {s} = clients[r] \ {s}) =>
            LET ty == IF s \in clients'[r] THEN "client_joined" ELSE "client_left"
                n == SentTo(out', controller[r], ty)
            IN  /\ Len(n) = 1
                /\ n[1].from = s /\ n[1].arg = Cardinality(clients'[r])
                /\ s \in clients'[r] => Len(SentTo(out', s, "room_info")) = 1
     /\ \A i \in 1..Len(out') :
          (out'[i].op = "send" /\ out'[i].type = "client_left") =>
            \E r \in RoomIds : controller[r] = out'[i].to /\ out'[i].from \in clients[r]]_vars

\* the connections that joined a room and whose socket is OPEN
Authenticated == { s \in Sessions : wsRole[s] # "undefined" /\ readyState[s] = "OPEN" }

\* a message of s that is a protocol error: a body that does not parse, a type
\* without a branch, or a metrics / room_settings message of the right role
\* without its payload / settings field
ProtocolError(s) ==
  \/ ParseError(s)
  \/ \E body \in BOOLEAN : Dropped(s, "relay", body)
  \/ MetricsBranch(s) /\ Dropped(s, "metrics", FALSE)
  \/ SettingsBranch(s) /\ Dropped(s, "room_settings", FALSE)

\* C22: a protocol error of an authenticated connection is answered with an
\* error message to that connection, which stays open and keeps its slots.
C22_ProtocolErrorAnswered ==
  [][\A s \in Authenticated :
       ProtocolError(s) =>
         /\ out' = << Msg(s, "error", Null, 0) >>
         /\ readyState'[s] = "OPEN"
         /\ \A r \in RoomIds :
              Slots(r, s, controller', clients') = Slots(r, s, controller, clients)]_vars

\* C23: a hello without role or without code is answered with an error message
\* to the sender and then closed with a reason string.
C23_MissingFieldAnswered ==
  [][\A s \in OpenSessions, role \in Roles, c \in HelloCodes :
       (Hello(s, role, c) /\ (role = "" \/ c = Null)) =>
         /\ Len(out') = 2
         /\ out'[1] = Msg(s, "error", Null, 0)
         /\ out'[2].op = "close" /\ out'[2].to = s /\ out'[2].type # ""
         /\ readyState'[s] # "OPEN"]_vars

\* C24: a registered room without participants is eventually removed from the
\* registry unless somebody joins it, also when nobody ever joined it.
C24_EmptyRoomReclaimed ==
  \A c \in Codes, r \in RoomIds :
    (rooms[c] = r /\ ~Occupied(r, controller, clients))
      ~> (rooms[c] # r \/ Occupied(r, controller, clients))

\* C25: the empty-room timer never removes a room from the registry while a
\* connection that joined that room is still open.
C25_NoReclaimWhileJoined ==
  [][\A t \in timers :
       (EmptyRoomTimerFires(t) /\ rooms[code[t.room]] = t.room /\ rooms' # rooms) =>
         ~ \E s \in Sessions :
             readyState[s] = "OPEN" /\ wsRole[s] # "undefined" /\ room[s] = t.room]_vars

\* C26: an API request answered with a failure leaves the registry as it was:
\* no room is constructed or registered, none is removed, no socket is closed.
C26_FailureChangesNothing ==
  [][\A c \in Codes :
       (CreateRoomFails(c) \/ DeleteRoomFails(c) \/ DeleteRoomNotFound(c)) =>
         /\ rooms' = rooms /\ nextRoom' = nextRoom
         /\ readyState' = readyState]_vars

\* C27: while a room's enableRealTime setting is false, the ingestion of a
\* metric forwards no metrics message (the record is still buffered and
\* stored); while it is true, the writable controller is sent the forward.
C27_RealTimeGovernsForwarding ==
  [][\A s \in Sessions, payload \in Payloads :
       Metrics(s, payload) =>
         LET r == room[s]
             fwd == SelectSeq(out', LAMBDA e : e.op = "send" /\ e.type = "metrics")
         IN  /\ out'[1].op = "append" /\ out'[2].op = "store"
             /\ ~settings[r].enableRealTime => Len(fwd) = 0
             /\ (settings[r].enableRealTime /\ r \in ControllerWritable) => Len(fwd) = 1]_vars

\* the codes that map to socket s in the pairing server's clients
CodesOf(m, s) == { m[i].code : i \in { j \in 1..Len(m) : m[j].ws = s } }

\* C28: in the pairing server, once a socket has closed no pairing code maps to
\* it, whatever pair messages it sent; and a metrics message for a code is
\* forwarded only to the open socket paired under that code at that time, and
\* never to its sender.
C28_PairingCleanedAndRouted ==
  [][/\ \A s \in Sessions :
          sockState'[s] = "CLOSED" => CodesOf(pairings', s) = {}
     /\ \A s \in Sessions, c \in Codes :
          PairMetrics(s, c) =>
            \A i \in 1..Len(out') :
              /\ out'[i].to = ClientsGet(pairings, c)
              /\ sockState[out'[i].to] = "OPEN"
              /\ out'[i].to # s]_vars

====
